---- MODULE Spec2Model ----
(***************************************************************************)
(* A model of App.py, the RBI circular checker: the index parser           *)
(* (parse_circulars_table), the PDF validator (check_pdf_url_exists), the  *)
(* artifact resolver (get_pdf_from_circular_page), the state file          *)
(* (get_last_circular_id / set_last_circular_id) and the orchestrator      *)
(* (main).                                                                 *)
(*                                                                         *)
(* Text is a sequence of characters; the characters are named: "SP" a      *)
(* space, "CR" a carriage return, "LF" a line feed, anything else a        *)
(* printable character.  URLs and hrefs are sequences of tokens.           *)
(***************************************************************************)
EXTENDS Integers, Sequences, FiniteSets, TLC

\* ------------------------------------------------------------------ bounds

\* rows of one rendered index page
MaxRows == 2
\* runs of main in one behaviour
MaxRuns == 2
\* anchors and embedding tags, together, of one rendered detail page
MaxElems == 2

\* ------------------------------------------------------------ text helpers

RECURSIVE Flatten(_)
\* the concatenation of a sequence of sequences
Flatten(ss) == IF ss = <<>> THEN <<>> ELSE Head(ss) \o Flatten(Tail(ss))

\* the sequences over S of length at most n
BSeq(S, n) == UNION {[1..k -> S] : k \in 0..n}

\* str.isspace for one character
IsSpace(c) == c \in {"SP", "CR", "LF"}

RECURSIVE LStrip(_)
LStrip(s) == IF s # <<>> /\ IsSpace(Head(s)) THEN LStrip(Tail(s)) ELSE s

RECURSIVE RStrip(_)
RStrip(s) ==
    IF s # <<>> /\ IsSpace(s[Len(s)]) THEN RStrip(SubSeq(s, 1, Len(s) - 1)) ELSE s

\* str.strip()
Strip(s) == RStrip(LStrip(s))

\* sub in s, for sequences: sub is a contiguous part of s
Contains(s, sub) ==
    \E i \in 1..(Len(s) - Len(sub) + 1) : SubSeq(s, i, i + Len(sub) - 1) = sub

\* ------------------------------------------------------- the index markup
(***************************************************************************)
(* A rendered page holds tables; a table is a sequence of rows (tr), a row *)
(* a sequence of cells (td/th), and a cell holds, in this order, an        *)
(* optional anchor with an href, its own text, and nested tables.          *)
(***************************************************************************)

NoLink == [href |-> <<>>, text |-> <<>>, none |-> TRUE]
Anchor(h, t) == [href |-> h, text |-> t, none |-> FALSE]
Cell(l, t, ts) == [link |-> l, text |-> t, tables |-> ts]

RECURSIVE TablesOf(_), TablesOfRows(_), TablesOfCells(_)
\* find_all('table') below a sequence of tables: every table, in document order
TablesOf(ts) ==
    IF ts = <<>> THEN <<>>
    ELSE <<Head(ts)>> \o TablesOfRows(Head(ts)) \o TablesOf(Tail(ts))
TablesOfRows(rs) ==
    IF rs = <<>> THEN <<>> ELSE TablesOfCells(Head(rs)) \o TablesOfRows(Tail(rs))
TablesOfCells(cs) ==
    IF cs = <<>> THEN <<>> ELSE TablesOf(Head(cs).tables) \o TablesOfCells(Tail(cs))

RECURSIVE RowsOf(_), RowsOfCells(_)
\* table.find_all('tr'): every row below the table, nested ones included
RowsOf(rs) ==
    IF rs = <<>> THEN <<>>
    ELSE <<Head(rs)>> \o RowsOfCells(Head(rs)) \o RowsOf(Tail(rs))
RowsOfCells(cs) ==
    IF cs = <<>> THEN <<>>
    ELSE Flatten([i \in 1..Len(Head(cs).tables) |-> RowsOf(Head(cs).tables[i])])
         \o RowsOfCells(Tail(cs))

RECURSIVE CellsOf(_)
\* row.find_all(['td', 'th']): every cell below the row, nested ones included
CellsOf(cs) ==
    IF cs = <<>> THEN <<>>
    ELSE <<Head(cs)>>
         \o Flatten([i \in 1..Len(Head(cs).tables) |->
                       Flatten([j \in 1..Len(Head(cs).tables[i]) |->
                                  CellsOf(Head(cs).tables[i][j])])])
         \o CellsOf(Tail(cs))

RECURSIVE AnchorsOf(_)
\* the anchors with an href below a sequence of cells, in document order
AnchorsOf(cs) ==
    IF cs = <<>> THEN <<>>
    ELSE (IF Head(cs).link.none THEN <<>> ELSE <<Head(cs).link>>)
         \o Flatten([i \in 1..Len(Head(cs).tables) |->
                       Flatten([j \in 1..Len(Head(cs).tables[i]) |->
                                  AnchorsOf(Head(cs).tables[i][j])])])
         \o AnchorsOf(Tail(cs))

\* cell.find('a', href=True): the first anchor below the cell, or none
FindAnchor(c) == IF AnchorsOf(<<c>>) = <<>> THEN NoLink ELSE Head(AnchorsOf(<<c>>))

RECURSIVE StringsOf(_)
\* the text nodes below a sequence of cells, in document order
StringsOf(cs) ==
    IF cs = <<>> THEN <<>>
    ELSE (IF Head(cs).link.none THEN <<>> ELSE <<Head(cs).link.text>>)
         \o <<Head(cs).text>>
         \o Flatten([i \in 1..Len(Head(cs).tables) |->
                       Flatten([j \in 1..Len(Head(cs).tables[i]) |->
                                  StringsOf(Head(cs).tables[i][j])])])
         \o StringsOf(Tail(cs))

\* get_text(strip=True) of text nodes: each stripped, the empty ones dropped, joined
JoinStripped(strs) == Flatten([i \in 1..Len(strs) |-> Strip(strs[i])])

\* link.get_text() without strip=True: the text as the page holds it
AnchorTextUnstripped(l) == l.text

\* link.get_text(strip=True)
AnchorText(l) == JoinStripped(<<l.text>>)
\* cell.get_text(strip=True)
CellText(c) == JoinStripped(StringsOf(<<c>>))

\* ------------------------------------------------- parse_circulars_table

\* len(cells) >= 4
MinCells == 4

\* 'BS_CircularIndexDisplay.aspx?Id='
DetailPattern == <<"BS_CircularIndexDisplay.aspx", "?", "Id=">>

\* a row skipped by the parser
NoSummary == <<>>

\* the link test of the parser: an anchor was found and its href holds the pattern
LinkMatches(link) == ~link.none /\ Contains(link.href, DetailPattern)

\* the circular_data dict built for a row
Summary(link, cells) ==
    [href            |-> link.href,
     circular_number |-> AnchorText(link),
     date            |-> CellText(cells[2]),
     department      |-> CellText(cells[3]),
     subject         |-> CellText(cells[4])]

\* the body of the loop over rows: the summaries (none or one) a row adds
ParseRow(row) ==
    LET cells == CellsOf(row)
    IN  IF Len(cells) >= MinCells
        THEN LET link == FindAnchor(cells[1])
             IN  IF LinkMatches(link) THEN <<Summary(link, cells)>> ELSE NoSummary
        ELSE NoSummary

\* parse_circulars_table(soup): every row of every table, tables in find_all order
parse_circulars_table(soup) ==
    LET tables == TablesOf(soup)
    IN  Flatten([t \in 1..Len(tables) |->
                  LET rows == RowsOf(tables[t])
                  IN  Flatten([r \in 1..Len(rows) |-> ParseRow(rows[r])])])

\* ------------------------------------------------------ the pages checked

\* a detail href of the published pattern, with identifier id
DetailHref(id) == DetailPattern \o id
\* an href of another page of the site
OtherHref == <<"NotificationUser.aspx", "?", "Id=", "7">>

PlainCell == Cell(NoLink, <<"d">>, <<>>)
\* a row without nesting: a first cell holding link l, then n - 1 plain cells
FlatRow(l, n) == <<Cell(l, <<>>, <<>>)>> \o [i \in 1..(n - 1) |-> PlainCell]

RowA == FlatRow(Anchor(DetailHref(<<"1">>), <<"SP", "a">>), MinCells)
RowB == FlatRow(Anchor(DetailHref(<<"2">>), <<"b">>), MinCells)
RowCR == FlatRow(Anchor(DetailHref(<<"3">>), <<"a", "CR", "b">>), MinCells)
\* a matching link with no text (an image link, or blank text)
RowBlank == FlatRow(Anchor(DetailHref(<<"4">>), <<"SP">>), MinCells)
RowShort == FlatRow(Anchor(DetailHref(<<"5">>), <<"a">>), MinCells - 1)
RowNoLink == FlatRow(NoLink, MinCells)
RowOther == FlatRow(Anchor(OtherHref, <<"a">>), MinCells)
\* a table nested in a cell, with one well-formed row
InnerTable == <<FlatRow(Anchor(DetailHref(<<"6">>), <<"c">>), MinCells)>>
\* a layout row: its only cell holds the nested table
RowLayout == <<Cell(NoLink, <<>>, <<InnerTable>>)>>
\* a well-formed row whose second cell holds the nested table
RowNest ==
    <<Cell(Anchor(DetailHref(<<"8">>), <<"e">>), <<>>, <<>>),
      Cell(NoLink, <<"d">>, <<InnerTable>>), PlainCell, PlainCell>>

RowKinds ==
    {RowA, RowB, RowCR, RowBlank, RowShort, RowNoLink, RowOther, RowLayout, RowNest}

\* the pages: at most MaxRows top-level rows, in one table or split over two
IndexPages ==
    LET rowseqs == BSeq(RowKinds, MaxRows)
    IN  {<<rs>> : rs \in rowseqs}
        \cup UNION {{<<SubSeq(rs, 1, k), SubSeq(rs, k + 1, Len(rs))>> :
                       k \in 0..Len(rs)} : rs \in rowseqs}

\* ------------------------------------------------------- Python's values

\* None
None == <<>>
\* a value that is not None
Some(x) == <<x>>
\* bool(x) of an optional string: neither None nor empty
Truthy(x) == x # None /\ x[1] # <<>>

\* ---------------------------------------------------------- the state file

\* last_circular.txt does not exist
NoFile == [exists |-> FALSE, content |-> <<>>]
\* last_circular.txt holding text
FileOf(text) == [exists |-> TRUE, content |-> text]

RECURSIVE TextRead(_)
\* reading in text mode: universal newlines turn CR LF and CR into LF
TextRead(s) ==
    IF s = <<>> THEN <<>>
    ELSE IF Head(s) = "CR"
         THEN IF Len(s) > 1 /\ s[2] = "LF"
              THEN <<"LF">> \o TextRead(Tail(Tail(s)))
              ELSE <<"LF">> \o TextRead(Tail(s))
         ELSE <<Head(s)>> \o TextRead(Tail(s))

\* get_last_circular_id(): f.read().strip(), or None without the file
get_last_circular_id(file) ==
    IF file.exists THEN Some(Strip(TextRead(file.content))) ELSE None

\* set_last_circular_id(circular_id): the file overwritten with the id as given
set_last_circular_id(circular_id) == FileOf(circular_id)

\* ------------------------------------------------------------- URLs

\* str.lower(), token by token
Lower(u) ==
    [i \in 1..Len(u) |->
        CASE u[i] = ".PDF" -> ".pdf"
          [] u[i] = "PDF" -> "pdf"
          [] u[i] = "Utkarsh" -> "utkarsh"
          [] u[i] = "APPLICATION/" -> "application/"
          [] OTHER -> u[i]]

\* RBI_BASE
RBI_BASE == <<"https://rbi.org.in/Scripts/">>
RbiDocs == "https://rbidocs.rbi.org.in/rdocs/"

\* a reference that names its own scheme and host
IsAbsolute(ref) == ref # <<>> /\ Head(ref) \in {RbiDocs, Head(RBI_BASE)}

\* urljoin(base, ref), for an absolute ref and for a ref relative to base's directory
urljoin(base, ref) == IF IsAbsolute(ref) THEN ref ELSE <<Head(base)>> \o ref

\* --------------------------------------------------- check_pdf_url_exists

\* response.status_code == 200
HTTP_OK == 200

\* requests.head raised (timeout, connection error, too many redirects)
NetworkError == [raised |-> TRUE, status |-> 0, content_type |-> <<>>]
\* the final response, with its content-type header (<<>> when absent)
Response(st, ct) == [raised |-> FALSE, status |-> st, content_type |-> ct]

ContentTypes ==
    {<<"application/", "pdf">>, <<"APPLICATION/", "PDF">>,
     <<"application/", "x-", "pdf", ";", "charset=binary">>,
     <<"text/", "html">>, <<"application/", "octet-stream">>, <<>>}
StatusCodes == {200, 201, 203, 204, 206, 400, 403, 404, 500, 503}
Responses ==
    {NetworkError} \cup {Response(st, ct) : st \in StatusCodes, ct \in ContentTypes}

\* 'pdf' in content_type, the header lowered
DeclaresPdf(resp) == Contains(Lower(resp.content_type), <<"pdf">>)

\* the test without the content type: any 200 response passes
AcceptsAnyOk(resp) == resp.status = 200

\* the test of check_pdf_url_exists on a response that arrived
AcceptsResponse(resp) == resp.status = HTTP_OK /\ DeclaresPdf(resp)

\* check_pdf_url_exists(url), given what requests.head did
check_pdf_url_exists(resp) == IF resp.raised THEN FALSE ELSE AcceptsResponse(resp)

\* ------------------------------------------------------------ the state

VARIABLES
    \* parse_circulars_table: the soup, find_all('table'), the table and row the
    \* loops are at, the list being built, and the position in the function
    soup, tables, ti, ri, circulars, ppc,
    \* check_pdf_url_exists: the position in the function, the requests sent,
    \* what requests.head did, the value returned
    hpc, hsent, hresp, hresult,
    \* get_pdf_from_circular_page: its argument, the rendered detail page, the
    \* position in the function, the element or pattern a loop is at, the
    \* identifier parsed from the URL, the list of validated links, the
    \* validation requests issued so far, the value returned, and whether the
    \* browser session is open
    circular_url, page, rpc, rk, circular_id, pdf_links, reqlog, rresult, rdriver,
    \* the world of main: the index page the site publishes, whether
    \* credentials.json exists, last_circular.txt
    site, credentials, stateFile,
    \* main: its position, the runs started, the browser sessions open, and its
    \* locals
    pc, runs, sessions, last_circular_id, latest_circular, pdf_url, html_content,
    local_filepath, circular_content, circular_drive_link, checklist_text,
    checklist_filepath, checklist_drive_link,
    \* what the run did: the calls made to the collaborators, the calls of
    \* send_gmail_api_email with their arguments and result, how the run ended,
    \* last_circular.txt and the published page as the run found them, and the
    \* same facts of the run before
    calls, notes, outcome, startFile, startSite, prev

parseVars == <<soup, tables, ti, ri, circulars, ppc>>
checkVars == <<hpc, hsent, hresp, hresult>>
resolveVars ==
    <<circular_url, page, rpc, rk, circular_id, pdf_links, reqlog, rresult, rdriver>>
mainVars ==
    <<site, credentials, stateFile, pc, runs, sessions, last_circular_id,
      latest_circular, pdf_url, html_content, local_filepath, circular_content,
      circular_drive_link, checklist_text, checklist_filepath, checklist_drive_link,
      calls, notes, outcome, startFile, startSite, prev>>
vars == <<parseVars, checkVars, resolveVars, mainVars>>

\* the parser is not running
ParseOff ==
    /\ soup = <<>> /\ tables = <<>> /\ ti = 0 /\ ri = 0
    /\ circulars = <<>> /\ ppc = "off"
\* the validator is not running
CheckOff == hpc = "off" /\ hsent = 0 /\ hresp = NetworkError /\ hresult = FALSE

\* ------------------------------------------- parse_circulars_table, stepwise

\* a page is handed to the parser; circulars = []
ParseInit ==
    /\ soup \in IndexPages
    /\ tables = <<>> /\ ti = 0 /\ ri = 0
    /\ circulars = <<>> /\ ppc = "find_tables"

\* tables = soup.find_all('table')
ParseFindTables ==
    /\ ppc = "find_tables"
    /\ tables' = TablesOf(soup)
    /\ ti' = 1 /\ ri' = 1
    /\ ppc' = "rows"
    /\ UNCHANGED <<soup, circulars, checkVars, resolveVars, mainVars>>

\* one pass of the loop over table.find_all('tr')
ParseNextRow ==
    /\ ppc = "rows" /\ ti <= Len(tables) /\ ri <= Len(RowsOf(tables[ti]))
    /\ circulars' = circulars \o ParseRow(RowsOf(tables[ti])[ri])
    /\ ri' = ri + 1
    /\ UNCHANGED <<soup, tables, ti, ppc, checkVars, resolveVars, mainVars>>

\* the rows of a table are done: on to the next table
ParseNextTable ==
    /\ ppc = "rows" /\ ti <= Len(tables) /\ ri > Len(RowsOf(tables[ti]))
    /\ ti' = ti + 1 /\ ri' = 1
    /\ UNCHANGED <<soup, tables, circulars, ppc, checkVars, resolveVars, mainVars>>

\* return circulars
ParseReturn ==
    /\ ppc = "rows" /\ ti > Len(tables)
    /\ ppc' = "returned"
    /\ UNCHANGED <<soup, tables, ti, ri, circulars, checkVars, resolveVars, mainVars>>

ParseNext == ParseFindTables \/ ParseNextRow \/ ParseNextTable \/ ParseReturn

\* -------------------------------------------- check_pdf_url_exists, stepwise

CheckInit == hpc = "call" /\ hsent = 0 /\ hresp = NetworkError /\ hresult = FALSE

\* requests.head(url, timeout=10, allow_redirects=True): one call, which ends
\* with the final response or raises
CheckHead ==
    /\ hpc = "call"
    /\ hsent' = hsent + 1
    /\ hresp' \in Responses
    /\ hpc' = "answered"
    /\ UNCHANGED <<hresult, parseVars, resolveVars, mainVars>>

\* the test on the response, or the except branch: the function returns
CheckReturn ==
    /\ hpc = "answered"
    /\ hresult' = check_pdf_url_exists(hresp)
    /\ hpc' = "returned"
    /\ UNCHANGED <<hsent, hresp, parseVars, resolveVars, mainVars>>

CheckNext == CheckHead \/ CheckReturn

\* ------------------------------------------- get_pdf_from_circular_page

\* the marker the resolver refuses
Marker == "utkarsh"
\* the marker test left out
UnmarkedAlways(ref) == TRUE

\* 'utkarsh' not in href.lower()
Unmarked(ref) == ~Contains(Lower(ref), <<Marker>>)

\* the anchor test: href.lower().endswith('.pdf') and no marker
AnchorIsCandidate(href) ==
    /\ href # <<>> /\ Lower(href)[Len(href)] = ".pdf"
    /\ Unmarked(href)

\* src = tag.get('src') or tag.get('data')
TagSource(tag) == IF tag.src # <<>> THEN tag.src ELSE tag.data

\* the tag test: src and '.pdf' in src.lower() and no marker
TagIsCandidate(tag) ==
    LET src == TagSource(tag)
    IN  /\ src # <<>>
        /\ Contains(Lower(src), <<".pdf">>)
        /\ Unmarked(src)

RECURSIVE FirstPart(_)
\* x.split('?Id=')[0].split('&')[0]: x up to its first '&' or '?Id='
FirstPart(s) ==
    IF s = <<>> \/ Head(s) = "&" \/ (Len(s) > 1 /\ s[1] = "?" /\ s[2] = "Id=")
    THEN <<>>
    ELSE <<Head(s)>> \o FirstPart(Tail(s))

RECURSIVE AfterId(_)
\* circular_url.split('?Id=')[1]
AfterId(u) ==
    IF Len(u) < 2 THEN <<>>
    ELSE IF u[1] = "?" /\ u[2] = "Id=" THEN Tail(Tail(u)) ELSE AfterId(Tail(u))

\* the identifier of the detail URL: None without '?Id=', else the text up to '&'
ParseCircularId(u) ==
    IF Contains(u, <<"?", "Id=">>) THEN Some(FirstPart(AfterId(u))) ELSE None

\* generate_pdf_from_circular_id(circular_id)
generate_pdf_from_circular_id(id) ==
    << <<RbiDocs, "content/pdfs/">> \o id \o <<".pdf">>,
       <<"https://www.rbi.org.in/Scripts/BS_PressReleaseDisplay.aspx", "?", "prid=">> \o id,
       <<RbiDocs, "circulars/">> \o id \o <<".pdf">> >>

\* "HTML_ONLY"
HTML_ONLY == <<"HTML_ONLY">>

\* the pair the resolver returns
Result(url, html) == [pdf_url |-> url, html_content |-> html]
NoResult == Result(None, None)

\* the anchors of the pages checked
AnchorKinds ==
    {<<"doc1", ".pdf">>,
     <<RbiDocs, "notification/", "n3", ".PDF">>,
     <<RbiDocs, "content/pdfs/", "utkarsh", "30122022", ".pdf">>,
     <<"BS_ViewMasterCirculars.aspx">>}
\* the object, iframe and embed tags of the pages checked
TagKinds ==
    {[src |-> <<"doc1", ".pdf">>, data |-> <<>>],
     [src |-> <<>>, data |-> <<RbiDocs, "obj", ".pdf", "#view=fit">>],
     [src |-> <<"Utkarsh", ".pdf">>, data |-> <<"doc1", ".pdf">>],
     [src |-> <<"frame", ".html">>, data |-> <<>>]}

\* the detail pages: at most MaxElems anchors and tags together
DetailPages ==
    {pg \in {[anchors |-> a, tags |-> t] :
                a \in BSeq(AnchorKinds, MaxElems), t \in BSeq(TagKinds, MaxElems)} :
        Len(pg.anchors) + Len(pg.tags) <= MaxElems}

\* the body markup find_element(...).get_attribute('innerHTML') gives
Bodies == {<<>>, <<"<p>", "text", "</p>">>}

\* the detail URLs: as main builds them, with and without an identifier, and a
\* URL without the Id parameter
DetailUrls ==
    {urljoin(RBI_BASE, DetailHref(<<"9999">>)),
     urljoin(RBI_BASE, DetailHref(<<>>)),
     urljoin(RBI_BASE, <<"BS_CircularIndexDisplay.aspx">>)}

\* what one validation request can meet
ResolveResponses ==
    {Response(200, <<"application/", "pdf">>), Response(200, <<"text/", "html">>),
     Response(404, <<"text/", "html">>), NetworkError}

\* the resolver is not running
ResolveOff ==
    /\ circular_url = <<>> /\ page = [anchors |-> <<>>, tags |-> <<>>]
    /\ rpc = "off" /\ rk = 0 /\ circular_id = None /\ pdf_links = <<>>
    /\ reqlog = <<>> /\ rresult = NoResult /\ rdriver = FALSE

\* one validation request, as the log keeps it
Request(kind, url, ok) == [kind |-> kind, url |-> url, ok |-> ok]

\* ---------------------------------- get_pdf_from_circular_page, stepwise

ResolveInit ==
    /\ circular_url \in DetailUrls
    /\ page = [anchors |-> <<>>, tags |-> <<>>]
    /\ rpc = "setup" /\ rk = 0 /\ circular_id = None /\ pdf_links = <<>>
    /\ reqlog = <<>> /\ rresult = NoResult /\ rdriver = FALSE

\* driver = setup_driver(): a session, or None and the function returns
ResolveSetup ==
    /\ rpc = "setup"
    /\ \/ rdriver' = TRUE /\ rpc' = "load"
       \/ rdriver' = FALSE /\ rpc' = "returned"
    /\ UNCHANGED <<circular_url, page, rk, circular_id, pdf_links, reqlog, rresult>>
    /\ UNCHANGED <<parseVars, checkVars, mainVars>>

\* driver.get, the wait for the body, the soup and the identifier; a failure
\* of the render is caught, the session is quit and (None, None) returned
ResolveLoad ==
    /\ rpc = "load"
    /\ \/ /\ page' \in DetailPages
          /\ circular_id' = ParseCircularId(circular_url)
          /\ rk' = 1 /\ rpc' = "anchors"
          /\ UNCHANGED rdriver
       \/ /\ rdriver' = FALSE /\ rpc' = "returned"
          /\ UNCHANGED <<page, circular_id, rk>>
    /\ UNCHANGED <<circular_url, pdf_links, reqlog, rresult>>
    /\ UNCHANGED <<parseVars, checkVars, mainVars>>

\* one pass of the loop over soup.find_all('a', href=True)
ResolveAnchor ==
    /\ rpc = "anchors" /\ rk <= Len(page.anchors)
    /\ LET href == page.anchors[rk]
           full_url == urljoin(circular_url, href)
       IN  IF AnchorIsCandidate(href)
           THEN \E resp \in ResolveResponses :
                  LET ok == check_pdf_url_exists(resp)
                  IN  /\ reqlog' = Append(reqlog, Request("anchor", full_url, ok))
                      /\ pdf_links' = IF ok THEN Append(pdf_links, full_url)
                                      ELSE pdf_links
           ELSE UNCHANGED <<reqlog, pdf_links>>
    /\ rk' = rk + 1
    /\ UNCHANGED <<circular_url, page, rpc, circular_id, rresult, rdriver>>
    /\ UNCHANGED <<parseVars, checkVars, mainVars>>

\* the anchors are done: on to soup.find_all(['object', 'iframe', 'embed'])
ResolveAnchorsDone ==
    /\ rpc = "anchors" /\ rk > Len(page.anchors)
    /\ rk' = 1 /\ rpc' = "tags"
    /\ UNCHANGED <<circular_url, page, circular_id, pdf_links, reqlog, rresult, rdriver>>
    /\ UNCHANGED <<parseVars, checkVars, mainVars>>

\* one pass of the loop over the embedding tags
ResolveTag ==
    /\ rpc = "tags" /\ rk <= Len(page.tags)
    /\ LET tag == page.tags[rk]
           full_url == urljoin(circular_url, TagSource(tag))
       IN  IF TagIsCandidate(tag)
           THEN \E resp \in ResolveResponses :
                  LET ok == check_pdf_url_exists(resp)
                  IN  /\ reqlog' = Append(reqlog, Request("tag", full_url, ok))
                      /\ pdf_links' = IF ok THEN Append(pdf_links, full_url)
                                      ELSE pdf_links
           ELSE UNCHANGED <<reqlog, pdf_links>>
    /\ rk' = rk + 1
    /\ UNCHANGED <<circular_url, page, rpc, circular_id, rresult, rdriver>>
    /\ UNCHANGED <<parseVars, checkVars, mainVars>>

\* the condition without "not pdf_links": the patterns tried whenever there is
\* an identifier
TriesPatternsAlways(id, links) == Truthy(id)

\* the condition of the identifier patterns: if circular_id and not pdf_links
TriesPatterns(id, links) == Truthy(id) /\ links = <<>>

\* the tags are done: the identifier patterns are tried, or not
ResolveTagsDone ==
    /\ rpc = "tags" /\ rk > Len(page.tags)
    /\ rk' = 1
    /\ rpc' = IF TriesPatterns(circular_id, pdf_links) THEN "patterns" ELSE "decide"
    /\ UNCHANGED <<circular_url, page, circular_id, pdf_links, reqlog, rresult, rdriver>>
    /\ UNCHANGED <<parseVars, checkVars, mainVars>>

\* the loop over potential_urls leaves at the first URL that validates
BreaksAt(ok) == ok

\* one pass of the loop over generate_pdf_from_circular_id(circular_id)
ResolvePattern ==
    /\ rpc = "patterns"
    /\ LET potential_urls == generate_pdf_from_circular_id(circular_id[1])
       IN  IF rk <= Len(potential_urls)
           THEN \E resp \in ResolveResponses :
                  LET ok == check_pdf_url_exists(resp)
                      url == potential_urls[rk]
                  IN  /\ reqlog' = Append(reqlog, Request("pattern", url, ok))
                      /\ pdf_links' = IF ok THEN Append(pdf_links, url) ELSE pdf_links
                      /\ rpc' = IF BreaksAt(ok) THEN "decide" ELSE "patterns"
                      /\ rk' = rk + 1
           ELSE /\ rpc' = "decide"
                /\ UNCHANGED <<reqlog, pdf_links, rk>>
    /\ UNCHANGED <<circular_url, page, circular_id, rresult, rdriver>>
    /\ UNCHANGED <<parseVars, checkVars, mainVars>>

\* the end of the function handing the body markup back with a PDF link too
DecideWithBody(links) ==
    IF links = <<>>
    THEN {Result(Some(HTML_ONLY), Some(b)) : b \in Bodies} \cup {NoResult}
    ELSE {Result(Some(links[i]), Some(b)) : i \in 1..Len(links), b \in Bodies}

\* the results the end of the function can give for a list of validated links:
\* without any, ("HTML_ONLY", body) with the body read from the browser, or
\* (None, None) when that read raises; with some, list(set(pdf_links))[0],
\* any one of them
Decide(links) ==
    IF links = <<>>
    THEN {Result(Some(HTML_ONLY), Some(b)) : b \in Bodies} \cup {NoResult}
    ELSE {Result(Some(links[i]), None) : i \in 1..Len(links)}

\* the return, and the finally clause: driver.quit()
ResolveReturn ==
    /\ rpc = "decide"
    /\ rresult' \in Decide(pdf_links)
    /\ rdriver' = FALSE
    /\ rpc' = "returned"
    /\ UNCHANGED <<circular_url, page, rk, circular_id, pdf_links, reqlog>>
    /\ UNCHANGED <<parseVars, checkVars, mainVars>>

ResolveNext ==
    \/ ResolveSetup \/ ResolveLoad \/ ResolveAnchor \/ ResolveAnchorsDone
    \/ ResolveTag \/ ResolveTagsDone \/ ResolvePattern \/ ResolveReturn

\* --------------------------------------------------------------- main

\* the index pages the site publishes between runs
LivePages == {<< <<r>> >> : r \in {RowA, RowCR, RowBlank, RowNoLink}}

\* the texts extraction and summarization give back
Texts == {<<>>, <<"t">>}

NoCalls == [resolve |-> 0, download |-> 0, synth |-> 0, upload |-> 0, summarize |-> 0]
NoRun == [outcome |-> "none", site |-> <<>>, last |-> None, latest |-> None]

\* the locals of main before a run assigns them
LocalsCleared ==
    /\ last_circular_id = None /\ latest_circular = None
    /\ pdf_url = None /\ html_content = None
    /\ local_filepath = None /\ circular_content = None
    /\ circular_drive_link = None /\ checklist_text = None
    /\ checklist_filepath = None /\ checklist_drive_link = None

\* main is not running
MainOff ==
    /\ site = <<>> /\ credentials = FALSE /\ stateFile = NoFile
    /\ pc = "off" /\ runs = 0 /\ sessions = 0
    /\ LocalsCleared
    /\ calls = NoCalls /\ notes = <<>> /\ outcome = "none"
    /\ startFile = NoFile /\ startSite = <<>> /\ prev = NoRun

\* before the first run: a published page, credentials present or not, and no
\* state file or the one an earlier run wrote
MainInit ==
    /\ site \in LivePages /\ credentials \in BOOLEAN
    /\ stateFile \in {NoFile, set_last_circular_id(<<"a">>)}
    /\ pc = "idle" /\ runs = 0 /\ sessions = 0
    /\ LocalsCleared
    /\ calls = NoCalls /\ notes = <<>> /\ outcome = "none"
    /\ startFile = stateFile /\ startSite = site /\ prev = NoRun

\* the run ends here: main returns (or its except clause logs)
Ends(how) == pc' = "done" /\ outcome' = how

locals ==
    <<last_circular_id, latest_circular, pdf_url, html_content, local_filepath,
      circular_content, circular_drive_link, checklist_text, checklist_filepath,
      checklist_drive_link>>
world == <<site, credentials, stateFile>>
others == <<parseVars, checkVars, resolveVars>>

\* the site publishes another index page between two runs
Publish ==
    /\ pc = "idle" /\ runs < MaxRuns
    /\ site' \in LivePages \ {site}
    /\ UNCHANGED <<credentials, stateFile, pc, runs, sessions, locals, calls, notes,
                   outcome, startFile, startSite, prev, others>>

\* credentials.json is put in place or removed between two runs
SetCredentials ==
    /\ pc = "idle" /\ runs < MaxRuns
    /\ credentials' = ~credentials
    /\ UNCHANGED <<site, stateFile, pc, runs, sessions, locals, calls, notes,
                   outcome, startFile, startSite, prev, others>>

\* main() is entered: last_circular_id = get_last_circular_id()
MainStart ==
    /\ pc = "idle" /\ runs < MaxRuns
    /\ runs' = runs + 1
    /\ last_circular_id' = get_last_circular_id(stateFile)
    /\ outcome' = "running"
    /\ startFile' = stateFile /\ startSite' = site
    /\ pc' = "index_setup"
    /\ UNCHANGED <<world, sessions, latest_circular, pdf_url, html_content,
                   local_filepath, circular_content, circular_drive_link,
                   checklist_text, checklist_filepath, checklist_drive_link,
                   calls, notes, prev, others>>

\* main has returned: its locals are gone; what the run met and how it ended is
\* kept for the run after it
MainReturn ==
    /\ pc = "done"
    /\ prev' = [outcome |-> outcome, site |-> startSite, last |-> last_circular_id,
                latest |-> latest_circular]
    /\ last_circular_id' = None /\ latest_circular' = None
    /\ pdf_url' = None /\ html_content' = None
    /\ local_filepath' = None /\ circular_content' = None
    /\ circular_drive_link' = None /\ checklist_text' = None
    /\ checklist_filepath' = None /\ checklist_drive_link' = None
    /\ calls' = NoCalls /\ notes' = <<>> /\ outcome' = "none"
    /\ pc' = "idle"
    /\ UNCHANGED <<world, runs, sessions, startFile, startSite, others>>

\* get_latest_circular_info: driver = setup_driver(); without a driver it returns
\* None and main returns
IndexSetup ==
    /\ pc = "index_setup"
    /\ \/ sessions' = sessions + 1 /\ pc' = "index_render" /\ UNCHANGED outcome
       \/ Ends("index_failed") /\ UNCHANGED sessions
    /\ UNCHANGED <<world, runs, locals, calls, notes, startFile, startSite, prev, others>>

\* latest_circular with its 'url' added
WithUrl(c) ==
    [href |-> c.href, circular_number |-> c.circular_number, date |-> c.date,
     department |-> c.department, subject |-> c.subject,
     url |-> urljoin(RBI_BASE, c.href)]

\* what get_latest_circular_info returns once the page is rendered: the first
\* summary parsed, or None without any
LatestOf(markup) ==
    LET parsed == parse_circulars_table(markup)
    IN  IF parsed = <<>> THEN None ELSE Some(WithUrl(parsed[1]))

\* get_latest_circular_info without its finally clause: the session is quit on
\* the normal return only
IndexRenderNoFinally ==
    /\ pc = "index_render"
    /\ \E rendered \in BOOLEAN :
         LET got == IF rendered THEN LatestOf(site) ELSE None
         IN  /\ latest_circular' = got
             /\ IF got = None
                THEN Ends("index_failed") /\ UNCHANGED sessions
                ELSE pc' = "compare" /\ sessions' = sessions - 1 /\ UNCHANGED outcome
    /\ UNCHANGED <<world, runs, last_circular_id, pdf_url, html_content,
                   local_filepath, circular_content, circular_drive_link,
                   checklist_text, checklist_filepath, checklist_drive_link,
                   calls, notes, startFile, startSite, prev, others>>

\* get_latest_circular_info: the render and the parse, then driver.quit(); a
\* render that raises gives None; main returns on None
IndexRender ==
    /\ pc = "index_render"
    /\ sessions' = sessions - 1
    /\ \E rendered \in BOOLEAN :
         LET got == IF rendered THEN LatestOf(site) ELSE None
         IN  /\ latest_circular' = got
             /\ IF got = None
                THEN Ends("index_failed")
                ELSE pc' = "compare" /\ UNCHANGED outcome
    /\ UNCHANGED <<world, runs, last_circular_id, pdf_url, html_content,
                   local_filepath, circular_content, circular_drive_link,
                   checklist_text, checklist_filepath, checklist_drive_link,
                   calls, notes, startFile, startSite, prev, others>>

\* current_circular_id = latest_circular['circular_number']
current_circular_id == latest_circular[1].circular_number

\* current_circular_id == last_circular_id
AlreadyProcessed(current, last) == last = Some(current)

\* the short-circuit: nothing new, main returns
Compare ==
    /\ pc = "compare"
    /\ IF AlreadyProcessed(current_circular_id, last_circular_id)
       THEN Ends("short_circuit")
       ELSE pc' = "detail_setup" /\ UNCHANGED outcome
    /\ UNCHANGED <<world, runs, sessions, locals, calls, notes, startFile, startSite, prev,
                   others>>

\* get_pdf_from_circular_page is called: driver = setup_driver(); without a
\* driver it returns (None, None) and main returns
DetailSetup ==
    /\ pc = "detail_setup"
    /\ calls' = [calls EXCEPT !.resolve = @ + 1]
    /\ \/ sessions' = sessions + 1 /\ pc' = "detail_resolve" /\ UNCHANGED outcome
       \/ Ends("no_artifact") /\ UNCHANGED sessions
    /\ UNCHANGED <<world, runs, locals, notes, startFile, startSite, prev, others>>

\* what get_pdf_from_circular_page can return for a detail URL once its session
\* is open: (None, None), the HTML-only pair, or a validated PDF URL
ResolverResults(url) ==
    {NoResult} \cup Decide(<<>>) \cup Decide(<<urljoin(url, <<"doc1", ".pdf">>)>>)

\* the branch without the test against "HTML_ONLY": any truthy pdf_url is
\* downloaded
PathForAnyUrl(url) ==
    IF Truthy(url) THEN "download"
    ELSE IF url = Some(HTML_ONLY) THEN "synthesize"
    ELSE "none"

\* main's choice of the path: "download", "synthesize" or "none"
PathFor(url) ==
    IF Truthy(url) /\ url # Some(HTML_ONLY) THEN "download"
    ELSE IF url = Some(HTML_ONLY) THEN "synthesize"
    ELSE "none"

\* get_pdf_from_circular_page returns (its session quit), and main branches on
\* pdf_url
DetailResolve ==
    /\ pc = "detail_resolve"
    /\ sessions' = sessions - 1
    /\ \E r \in ResolverResults(latest_circular[1].url) :
         /\ pdf_url' = r.pdf_url
         /\ html_content' = r.html_content
         /\ IF PathFor(r.pdf_url) = "none"
            THEN Ends("no_artifact")
            ELSE pc' = PathFor(r.pdf_url) /\ UNCHANGED outcome
    /\ UNCHANGED <<world, runs, last_circular_id, latest_circular, local_filepath,
                   circular_content, circular_drive_link, checklist_text,
                   checklist_filepath, checklist_drive_link, calls, notes,
                   startFile, startSite, prev, others>>

\* download_pdf with the state write ahead of it: a failed download leaves the
\* circular marked as processed
DownloadAfterStateWrite ==
    /\ pc = "download"
    /\ calls' = [calls EXCEPT !.download = @ + 1]
    /\ stateFile' = set_last_circular_id(current_circular_id)
    /\ \/ /\ local_filepath' = Some(<<"downloads/", "doc1_ts", ".pdf">>)
          /\ pc' = "extract" /\ UNCHANGED outcome
       \/ /\ local_filepath' = None
          /\ Ends("download_failed")
    /\ UNCHANGED <<site, credentials, runs, sessions, last_circular_id,
                   latest_circular, pdf_url, html_content, circular_content,
                   circular_drive_link, checklist_text, checklist_filepath,
                   checklist_drive_link, notes, startFile, startSite, prev, others>>

\* download_pdf(pdf_url): the saved path, or None on any failure; without a file
\* main returns
Download ==
    /\ pc = "download"
    /\ calls' = [calls EXCEPT !.download = @ + 1]
    /\ \/ /\ local_filepath' = Some(<<"downloads/", "doc1_ts", ".pdf">>)
          /\ pc' = "extract" /\ UNCHANGED outcome
       \/ /\ local_filepath' = None
          /\ Ends("download_failed")
    /\ UNCHANGED <<world, runs, sessions, last_circular_id, latest_circular, pdf_url,
                   html_content, circular_content, circular_drive_link,
                   checklist_text, checklist_filepath, checklist_drive_link,
                   notes, startFile, startSite, prev, others>>

\* pdfplumber: the page texts joined (empty without any), or None when it raises
Extract ==
    /\ pc = "extract"
    /\ circular_content' \in {None} \cup {Some(t) : t \in Texts}
    /\ pc' = "credentials"
    /\ UNCHANGED <<world, runs, sessions, last_circular_id, latest_circular, pdf_url,
                   html_content, local_filepath, circular_drive_link,
                   checklist_text, checklist_filepath, checklist_drive_link,
                   calls, notes, outcome, startFile, startSite, prev, others>>

\* create_pdf_from_html_content: a .pdf, a .html without weasyprint, None on an
\* error, or an exception out of the fallback's own write; circular_content is
\* the captured markup
Synthesize ==
    /\ pc = "synthesize"
    /\ calls' = [calls EXCEPT !.synth = @ + 1]
    /\ \/ /\ local_filepath' \in {Some(<<"downloads/", "RBI_Circular_ts", ".pdf">>),
                                  Some(<<"downloads/", "RBI_Circular_ts", ".html">>)}
          /\ circular_content' = html_content
          /\ pc' = "credentials" /\ UNCHANGED outcome
       \/ /\ local_filepath' = None
          /\ circular_content' = html_content
          /\ Ends("synthesis_failed")
       \/ /\ UNCHANGED <<local_filepath, circular_content>>
          /\ Ends("crashed")
    /\ UNCHANGED <<world, runs, sessions, last_circular_id, latest_circular, pdf_url,
                   html_content, circular_drive_link, checklist_text,
                   checklist_filepath, checklist_drive_link, notes, startFile, startSite,
                   prev, others>>

\* the credentials check recording the circular as processed when it skips the
\* upload and the notification
CheckCredentialsPersists ==
    /\ pc = "credentials"
    /\ IF credentials
       THEN pc' = "authenticate" /\ UNCHANGED <<outcome, stateFile>>
       ELSE /\ Ends("no_credentials")
            /\ stateFile' = set_last_circular_id(current_circular_id)
    /\ UNCHANGED <<site, credentials, runs, sessions, locals, calls, notes, startFile,
                   startSite, prev, others>>

\* os.path.exists('credentials.json'): without it main returns
CheckCredentials ==
    /\ pc = "credentials"
    /\ IF credentials
       THEN pc' = "authenticate" /\ UNCHANGED outcome
       ELSE Ends("no_credentials")
    /\ UNCHANGED <<world, runs, sessions, locals, calls, notes, startFile, startSite, prev,
                   others>>

\* authenticate_google_apis and the two build calls: credentials and services,
\* or an exception, which main's except clause logs
Authenticate ==
    /\ pc = "authenticate"
    /\ \/ pc' = "upload" /\ UNCHANGED outcome
       \/ Ends("crashed")
    /\ UNCHANGED <<world, runs, sessions, locals, calls, notes, startFile, startSite, prev,
                   others>>

\* the circular upload without the check of its link: main goes on to the
\* checklist and the notification with no link
UploadCircularNonFatal ==
    /\ pc = "upload"
    /\ calls' = [calls EXCEPT !.upload = @ + 1]
    /\ circular_drive_link' \in {None, Some(<<"drive/">> \o local_filepath[1])}
    /\ pc' = "checklist" /\ UNCHANGED outcome
    /\ UNCHANGED <<world, runs, sessions, last_circular_id, latest_circular, pdf_url,
                   html_content, local_filepath, circular_content, checklist_text,
                   checklist_filepath, checklist_drive_link, notes, startFile, startSite,
                   prev, others>>

\* upload_drive(local_filepath, ...): the link, or None; without a link main
\* returns
UploadCircular ==
    /\ pc = "upload"
    /\ calls' = [calls EXCEPT !.upload = @ + 1]
    /\ \/ /\ circular_drive_link' = Some(<<"drive/">> \o local_filepath[1])
          /\ pc' = "checklist" /\ UNCHANGED outcome
       \/ /\ circular_drive_link' = None
          /\ Ends("upload_failed")
    /\ UNCHANGED <<world, runs, sessions, last_circular_id, latest_circular, pdf_url,
                   html_content, local_filepath, circular_content, checklist_text,
                   checklist_filepath, checklist_drive_link, notes, startFile, startSite,
                   prev, others>>

\* if circular_content: generate_checklist_from_text, the checklist text (which
\* may be empty) or None; without content the step is skipped
GenerateChecklist ==
    /\ pc = "checklist"
    /\ IF Truthy(circular_content)
       THEN /\ calls' = [calls EXCEPT !.summarize = @ + 1]
            /\ checklist_text' \in {None} \cup {Some(t) : t \in Texts}
            /\ pc' = IF Truthy(checklist_text') THEN "checklist_file" ELSE "notify"
       ELSE /\ pc' = "notify"
            /\ UNCHANGED <<calls, checklist_text>>
    /\ UNCHANGED <<world, runs, sessions, last_circular_id, latest_circular, pdf_url,
                   html_content, local_filepath, circular_content,
                   circular_drive_link, checklist_filepath, checklist_drive_link,
                   notes, outcome, startFile, startSite, prev, others>>

\* create_checklist_file: the path of the text file, or None
CreateChecklistFile ==
    /\ pc = "checklist_file"
    /\ checklist_filepath' \in {None, Some(<<"downloads/", "RBI_Checklist_ts", ".txt">>)}
    /\ pc' = IF checklist_filepath' = None THEN "notify" ELSE "checklist_upload"
    /\ UNCHANGED <<world, runs, sessions, last_circular_id, latest_circular, pdf_url,
                   html_content, local_filepath, circular_content,
                   circular_drive_link, checklist_text, checklist_drive_link,
                   calls, notes, outcome, startFile, startSite, prev, others>>

\* the checklist upload checked as the circular upload is: without a link main
\* returns
UploadChecklistFatal ==
    /\ pc = "checklist_upload"
    /\ calls' = [calls EXCEPT !.upload = @ + 1]
    /\ \/ /\ checklist_drive_link' = Some(<<"drive/">> \o checklist_filepath[1])
          /\ pc' = "notify" /\ UNCHANGED outcome
       \/ /\ checklist_drive_link' = None
          /\ Ends("upload_failed")
    /\ UNCHANGED <<world, runs, sessions, last_circular_id, latest_circular, pdf_url,
                   html_content, local_filepath, circular_content,
                   circular_drive_link, checklist_text, checklist_filepath,
                   notes, startFile, startSite, prev, others>>

\* upload_drive(checklist_filepath, ...): the link, or None
UploadChecklist ==
    /\ pc = "checklist_upload"
    /\ calls' = [calls EXCEPT !.upload = @ + 1]
    /\ checklist_drive_link' \in {None, Some(<<"drive/">> \o checklist_filepath[1])}
    /\ pc' = "notify"
    /\ UNCHANGED <<world, runs, sessions, last_circular_id, latest_circular, pdf_url,
                   html_content, local_filepath, circular_content,
                   circular_drive_link, checklist_text, checklist_filepath,
                   notes, outcome, startFile, startSite, prev, others>>

\* send_gmail_api_email(gmail_service, latest_circular, circular_drive_link,
\* checklist_drive_link): the message sent, or None on any error; main does not
\* look at the value returned and goes on to the state write
Notify ==
    /\ pc = "notify"
    /\ \E sent \in BOOLEAN :
         notes' = Append(notes, [circular_drive_link |-> circular_drive_link,
                                 checklist_drive_link |-> checklist_drive_link,
                                 sent |-> sent])
    /\ pc' = "persist"
    /\ UNCHANGED <<world, runs, sessions, locals, calls, outcome, startFile,
                   startSite, prev, others>>

\* set_last_circular_id(current_circular_id): the file rewritten; or the write
\* raises, with the file as it was (open failed) or truncated (the write
\* failed after the open), and main's except clause logs
Persist ==
    /\ pc = "persist"
    /\ \/ /\ stateFile' = set_last_circular_id(current_circular_id)
          /\ Ends("completed")
       \/ /\ stateFile' \in {stateFile, FileOf(<<>>)}
          /\ Ends("crashed")
    /\ UNCHANGED <<site, credentials, runs, sessions, locals, calls, notes,
                   startFile, startSite, prev, others>>

MainNext ==
    \/ Publish \/ SetCredentials \/ MainStart \/ MainReturn \/ IndexSetup
    \/ IndexRender
    \/ Compare \/ DetailSetup \/ DetailResolve \/ Download \/ Extract
    \/ Synthesize \/ CheckCredentials \/ Authenticate \/ UploadCircular
    \/ GenerateChecklist \/ CreateChecklistFile \/ UploadChecklist \/ Notify
    \/ Persist

\* ------------------------------------------------------ the specifications

\* runs of main
Init == MainInit /\ ParseOff /\ CheckOff /\ ResolveOff
Next == MainNext
Spec == Init /\ [][Next]_vars

\* parse_circulars_table on the pages of IndexPages
InitParse == ParseInit /\ CheckOff /\ ResolveOff /\ MainOff
NextParse == ParseNext
SpecParse == InitParse /\ [][NextParse]_vars

\* check_pdf_url_exists on the responses of Responses
InitCheck == CheckInit /\ ParseOff /\ ResolveOff /\ MainOff
NextCheck == CheckNext
SpecCheck == InitCheck /\ [][NextCheck]_vars

\* get_pdf_from_circular_page on the pages of DetailPages
InitResolve == ResolveInit /\ ParseOff /\ CheckOff /\ MainOff
NextResolve == ResolveNext
SpecResolve == InitResolve /\ [][NextResolve]_vars

\* ---------------------------------------------------- the claims on main

\* a run has ended: main is about to return
RunEnded == pc = "done"
\* the run sent the notification: send_gmail_api_email returned a message
NotificationSent == \E i \in 1..Len(notes) : notes[i].sent
\* the run decided to skip the notification (credentials.json missing)
NotificationSkipped == outcome = "no_credentials"

\* C1: a run overwrites the persisted last-processed id only if its
\* notification succeeded or it decided to skip the notification; a run whose
\* notification call fails never advances the persisted state.
C1_StateOnlyAfterNotification ==
    (RunEnded /\ stateFile # startFile) => (NotificationSent \/ NotificationSkipped)

\* the ways a run fails before it has a local document: the index discovery,
\* the detail-page resolution, the download
DiscoveryFailures == {"index_failed", "no_artifact", "download_failed"}

\* the run left the state file alone, uploaded nothing and notified nobody
NoEffects == stateFile = startFile /\ calls.upload = 0 /\ notes = <<>>

\* this run follows a run that met the same latest circular on the index
SameLatestAsBefore ==
    /\ runs > 1
    /\ LatestOf(prev.site) # None
    /\ LatestOf(prev.site) = LatestOf(startSite)

\* this run has read the index and knows its latest circular
Discovered == latest_circular # None /\ pc # "compare"

\* the run did not take the short-circuit: it is about to call the resolver
\* for the circular, or has called it
Reprocesses ==
    outcome # "short_circuit" /\ (pc = "detail_setup" \/ calls.resolve = 1)

\* C2, as stated: a run that fails in discovery, in the detail-page resolution
\* or in the download ends with the persisted id as it found it, no upload and
\* no notification, and the next run with the same latest circular does not
\* take the short-circuit and processes that circular again.
C2_FailedRunIsRetried ==
    /\ (RunEnded /\ outcome \in DiscoveryFailures) => NoEffects
    /\ (SameLatestAsBefore /\ prev.outcome \in DiscoveryFailures /\ Discovered)
          => Reprocesses

\* C2, amended: the same frame; the next run with the same latest circular
\* reprocesses it when the failed run had found it new (a failed resolution or
\* download), and after a failed index discovery it takes the short-circuit
\* exactly when that circular is the one already persisted.
C2_FailedRunLeavesNoTrace ==
    /\ (RunEnded /\ outcome \in DiscoveryFailures) => NoEffects
    /\ (SameLatestAsBefore /\ prev.outcome \in {"no_artifact", "download_failed"}
          /\ Discovered) => Reprocesses
    /\ (SameLatestAsBefore /\ prev.outcome = "index_failed" /\ Discovered)
          => (Reprocesses <=> prev.last # Some(current_circular_id))

\* C2's case: a download failed, and the next run, with the same latest
\* circular, resolved it again and completed
C2_Witness ==
    /\ RunEnded /\ SameLatestAsBefore /\ prev.outcome = "download_failed"
    /\ outcome = "completed" /\ calls.resolve = 1

\* the run did nothing beyond reading the state and the index
ShortCircuited ==
    /\ outcome = "short_circuit"
    /\ calls = NoCalls /\ notes = <<>> /\ stateFile = startFile

\* both runs found the same latest circular on the index
SameCircularTwice ==
    runs > 1 /\ prev.latest # None /\ latest_circular = prev.latest

\* the id a completed run wrote is read back equal to the circular number
ReadsBackWritten ==
    (RunEnded /\ outcome = "completed")
        => get_last_circular_id(stateFile) = Some(current_circular_id)

HasNoCR(text) == \A i \in 1..Len(text) : text[i] # "CR"

\* the run before left the latest circular as the persisted id
Settled ==
    \/ prev.outcome = "short_circuit"
    \/ prev.outcome = "completed" /\ HasNoCR(prev.latest[1].circular_number)

ChecklistFailed ==
    \/ ~Truthy(circular_content)
    \/ ~Truthy(checklist_text)
    \/ checklist_filepath = None
    \/ checklist_drive_link = None

\* the one notification of the run, with the circular's link and no checklist
NotifiedWithoutChecklist ==
    /\ Len(notes) = 1
    /\ notes[1].circular_drive_link = circular_drive_link
    /\ notes[1].checklist_drive_link = None

\* C10: in a run that materialized and uploaded the circular, a failure of the
\* text extraction, the checklist generation, the checklist file or the
\* checklist upload does not abort the run: the notification is still invoked
\* exactly once, with the circular's storage link and no checklist link.
C10_ChecklistFailureStillNotifies ==
    (RunEnded /\ circular_drive_link # None /\ ChecklistFailed)
        => NotifiedWithoutChecklist

\* C10's case: the checklist was generated and saved, its upload failed, and
\* the run ended with its notification made
C10_Witness ==
    /\ RunEnded /\ circular_drive_link # None
    /\ checklist_filepath # None /\ checklist_drive_link = None
    /\ Len(notes) = 1

\* main is inside one of the two functions that open a browser session
InsideSessionFunction == pc \in {"index_render", "detail_resolve"}

\* C11: every browser session get_latest_circular_info or
\* get_pdf_from_circular_page opens is quit before that function returns, on
\* every exit path: at most one session is open at any point of a run, a session
\* is open only inside the function that opened it, the index session is closed
\* before the detail session is opened, and none is open when main ends.
C11_SessionsReleased ==
    /\ sessions \in {0, 1}
    /\ sessions = 1 => InsideSessionFunction
    /\ pc = "detail_setup" => sessions = 0
    /\ RunEnded => sessions = 0

\* C11's case: a run that opened the index session and then the detail session
\* has ended, the render of the detail page having failed
C11_Witness ==
    /\ RunEnded /\ calls.resolve = 1 /\ outcome = "no_artifact"
    /\ pdf_url = None /\ sessions = 0

\* what the resolver handed to main: a PDF URL, the HTML-only pair, or nothing
ReturnedPdf == pdf_url # None /\ pdf_url # Some(HTML_ONLY)
ReturnedHtmlOnly == pdf_url = Some(HTML_ONLY)
ReturnedNothing == calls.resolve = 1 /\ pdf_url = None

\* C12: main materializes the local document by exactly one path: download_pdf
\* is called iff the resolver returned a PDF URL, create_pdf_from_html_content
\* iff it returned the HTML-only result (then nothing is downloaded and the
\* captured markup is the text passed on); with no artifact neither is called
\* and the run ends.
C12_OnePathByArtifactKind ==
    /\ calls.download + calls.synth <= 1
    /\ calls.download = 1 => ReturnedPdf
    /\ calls.synth = 1 => ReturnedHtmlOnly
    /\ (RunEnded /\ ReturnedPdf) => calls.download = 1
    /\ (RunEnded /\ ReturnedHtmlOnly) => calls.synth = 1
    /\ (ReturnedHtmlOnly /\ (pc = "credentials" \/ calls.summarize = 1))
          => circular_content = html_content
    /\ (RunEnded /\ ReturnedNothing)
          => (calls.download = 0 /\ calls.synth = 0 /\ outcome = "no_artifact")

\* C12's case: an HTML-only circular was synthesized, its markup summarized,
\* and the run completed
C12_Witness ==
    /\ RunEnded /\ ReturnedHtmlOnly /\ outcome = "completed"
    /\ calls.synth = 1 /\ calls.download = 0 /\ calls.summarize = 1

\* upload_drive was called for the circular and gave no link
CircularUploadFailed == calls.upload >= 1 /\ circular_drive_link = None

\* every notification call of the run carried a circular storage link
NotesCarryLink == \A i \in 1..Len(notes) : notes[i].circular_drive_link # None

\* C13: a failed upload of the circular is fatal to the run: when upload_drive
\* returns no link for it, the run ends with no summarization call, no
\* notification and the persisted state unchanged; a notification is only ever
\* sent carrying a present circular storage link.
C13_CircularUploadFailureIsFatal ==
    /\ CircularUploadFailed
          => /\ RunEnded /\ outcome = "upload_failed"
             /\ calls.summarize = 0 /\ notes = <<>> /\ stateFile = startFile
    /\ NotesCarryLink

\* C13's case: the circular was materialized, its upload gave no link, and the
\* run ended
C13_Witness ==
    /\ RunEnded /\ CircularUploadFailed /\ local_filepath # None
    /\ Truthy(circular_content)

\* the run called one of the two materialization functions
Materializes == calls.download + calls.synth = 1

\* the run stopped at the credentials check with its local document on disk
StoppedForCredentials == RunEnded /\ outcome = "no_credentials"

\* this run follows, with credentials.json still absent, a run that stopped at
\* the credentials check for the same latest circular
AfterRunWithoutCredentials ==
    SameLatestAsBefore /\ prev.outcome = "no_credentials" /\ ~credentials

\* C14: without credentials.json a run that found a new circular and
\* materialized it ends before authentication, with no upload, no summarization,
\* no notification and the persisted id unchanged; a later run that finds the
\* same latest circular, credentials still absent, does not take the
\* short-circuit: it resolves the detail page again, materializes whatever the
\* resolver returns, and stops at the credentials check again.
C14_NoCredentialsNeverConverges ==
    /\ ~credentials => pc \notin {"authenticate", "upload", "checklist", "notify",
                                  "persist"}
    /\ StoppedForCredentials
          => /\ ~credentials /\ local_filepath # None /\ Materializes
             /\ NoEffects /\ calls.summarize = 0
    /\ (~credentials /\ RunEnded) => (NoEffects /\ calls.summarize = 0)
    /\ (AfterRunWithoutCredentials /\ Discovered) => Reprocesses
    /\ (AfterRunWithoutCredentials /\ RunEnded /\ Discovered)
          => /\ calls.resolve = 1
             /\ (ReturnedPdf \/ ReturnedHtmlOnly) => Materializes
             /\ local_filepath # None => StoppedForCredentials

\* C14's case: two runs in succession without credentials.json, the same
\* circular latest in both: the second resolved and downloaded it again and
\* stopped at the credentials check as the first did
C14_Witness ==
    /\ AfterRunWithoutCredentials /\ StoppedForCredentials
    /\ calls.resolve = 1 /\ calls.download = 1 /\ stateFile = startFile

\* ------------------------------------------------ the claims on the parser

\* the rows of a page, each once, in document order
DocumentRows(markup) == Flatten([t \in 1..Len(markup) |-> RowsOf(markup[t])])

\* a well-formed row: at least 4 cells, and in its first cell a link to a
\* detail page
WellFormed(row) ==
    /\ Len(row) >= MinCells
    /\ ~row[1].link.none
    /\ Contains(row[1].link.href, DetailPattern)

RECURSIVE Keep(_)
\* the well-formed rows among rows, in their order
Keep(rows) ==
    IF rows = <<>> THEN <<>>
    ELSE (IF WellFormed(Head(rows)) THEN <<Head(rows)>> ELSE <<>>) \o Keep(Tail(rows))

\* the hrefs of the well-formed rows of a page, in document order
ExpectedHrefs(markup) ==
    LET rows == Keep(DocumentRows(markup))
    IN  [i \in 1..Len(rows) |-> rows[i][1].link.href]

\* C8: for any page, tables nested in cells included, parse_circulars_table
\* returns exactly one summary per well-formed row, in the document order of
\* those rows; the other rows are left out and shift nothing.
C8_OneSummaryPerRowInOrder ==
    ppc = "returned"
        => [i \in 1..Len(circulars) |-> circulars[i].href] = ExpectedHrefs(soup)

\* C9: every summary parse_circulars_table returns has a non-empty
\* circular_number and an href holding the 'Id=' parameter.
C9_NumberAndHrefPresent ==
    \A i \in 1..Len(circulars) :
        /\ circulars[i].circular_number # <<>>
        /\ Contains(circulars[i].href, <<"Id=">>)

\* ---------------------------------------------- the claims on the validator

\* a success status: 2xx
IsSuccess(st) == st \in 200..299

\* the cases the claim names
NamedCases ==
    /\ hresp = Response(200, <<"application/", "pdf">>) => hresult
    /\ hresp = Response(200, <<"text/", "html">>) => ~hresult
    /\ (~hresp.raised /\ hresp.status = 404) => ~hresult
    /\ hresp.raised => ~hresult

\* C7, as stated: check_pdf_url_exists returns true exactly when the header
\* request completes with a success status and a content type declaring a PDF
\* (200 with application/pdf accepted, 200 with text/html and 404 rejected, a
\* network error or timeout false), after a single request.
C7_TrueIffSuccessAndPdf ==
    hpc = "returned"
        => /\ hresult <=> (~hresp.raised /\ IsSuccess(hresp.status) /\ DeclaresPdf(hresp))
           /\ NamedCases
           /\ hsent = 1

\* C7, amended: true exactly when the request completes with status 200 and a
\* content type declaring a PDF; the named cases and the single request as stated.
C7_TrueIffOkAndPdf ==
    hpc = "returned"
        => /\ hresult <=> (~hresp.raised /\ hresp.status = 200 /\ DeclaresPdf(hresp))
           /\ NamedCases
           /\ hsent = 1

\* C7's case: a 200 response declaring a PDF in capitals was accepted
C7_Witness ==
    hpc = "returned" /\ hresult /\ hresp = Response(200, <<"APPLICATION/", "PDF">>)

\* ----------------------------------------------- the claims on the resolver

\* the order of the three sources of candidates
Rank(kind) == CASE kind = "anchor" -> 1 [] kind = "tag" -> 2 [] kind = "pattern" -> 3

RECURSIVE UrlsOfKind(_, _)
\* the URLs of the requests of one kind, in the order they were issued
UrlsOfKind(log, kind) ==
    IF log = <<>> THEN <<>>
    ELSE (IF Head(log).kind = kind THEN <<Head(log).url>> ELSE <<>>)
         \o UrlsOfKind(Tail(log), kind)

RECURSIVE AnchorCandidates(_)
\* the absolute URLs of the anchors that are candidates, in document order
AnchorCandidates(anchors) ==
    IF anchors = <<>> THEN <<>>
    ELSE (IF AnchorIsCandidate(Head(anchors))
          THEN <<urljoin(circular_url, Head(anchors))>> ELSE <<>>)
         \o AnchorCandidates(Tail(anchors))

\* s is the beginning of t
IsPrefix(s, t) == Len(s) <= Len(t) /\ s = SubSeq(t, 1, Len(s))

\* the requests are issued anchors first, then tags, then patterns; once a tag
\* or pattern is requested every anchor candidate has been
SourcesInOrder ==
    /\ \A i, j \in 1..Len(reqlog) :
          i < j => Rank(reqlog[i].kind) <= Rank(reqlog[j].kind)
    /\ (\E i \in 1..Len(reqlog) : reqlog[i].kind # "anchor")
          => UrlsOfKind(reqlog, "anchor") = AnchorCandidates(page.anchors)

\* a pattern is requested only with an identifier parsed from the URL and
\* after no anchor or tag validated; the patterns go in the order of
\* generate_pdf_from_circular_id, at most 3, and none after one validated
PatternsLast ==
    \A j \in 1..Len(reqlog) :
        reqlog[j].kind = "pattern"
            => /\ Truthy(ParseCircularId(circular_url))
               /\ Contains(circular_url, <<"?", "Id=">>)
               /\ \A i \in 1..(j - 1) : ~reqlog[i].ok
               /\ Len(UrlsOfKind(reqlog, "pattern")) <= 3
               /\ IsPrefix(UrlsOfKind(reqlog, "pattern"),
                           generate_pdf_from_circular_id(ParseCircularId(circular_url)[1]))

\* the pattern that validated is the URL returned
PatternAccepted ==
    \A j \in 1..Len(reqlog) :
        (rpc = "returned" /\ reqlog[j].kind = "pattern" /\ reqlog[j].ok)
            => rresult = Result(Some(reqlog[j].url), None)

\* C4: within one call the validation requests go in priority order: every
\* anchor candidate before any embed/object/iframe candidate; the URLs made
\* from the identifier (at most 3, in the order of generate_pdf_from_circular_id)
\* only if no anchor or tag candidate validated and an identifier was parsed
\* from the detail URL, stopping at the first that validates, which is accepted.
C4_ValidationInPriorityOrder == SourcesInOrder /\ PatternsLast /\ PatternAccepted

\* C4's case: an anchor and a tag were requested and failed, the first pattern
\* failed, the second validated and was returned
C4_Witness ==
    /\ rpc = "returned" /\ Len(reqlog) = 4
    /\ reqlog[1].kind = "anchor" /\ reqlog[2].kind = "tag"
    /\ reqlog[3].kind = "pattern" /\ ~reqlog[3].ok
    /\ reqlog[4].kind = "pattern" /\ reqlog[4].ok
    /\ rresult.pdf_url = Some(reqlog[4].url)

\* the URLs that passed validation in this call
Validated == {reqlog[i].url : i \in {k \in 1..Len(reqlog) : reqlog[k].ok}}

\* a PDF result: one of the validated URLs, no body
IsPdfResult(r) ==
    /\ r.pdf_url # None /\ r.pdf_url # Some(HTML_ONLY)
    /\ r.pdf_url[1] \in Validated
    /\ r.html_content = None
\* an HTML-only result: the marker and the body
IsHtmlResult(r) == r.pdf_url = Some(HTML_ONLY) /\ r.html_content # None

\* C5: an artifact returned is a PDF result, a validated URL without a body,
\* or an HTML-only result with the body, never both; and it is the HTML-only
\* one exactly when no candidate validated in the call.
C5_PdfOrHtmlNeverMixed ==
    (rpc = "returned" /\ rresult # NoResult)
        => /\ IsPdfResult(rresult) \/ IsHtmlResult(rresult)
           /\ ~(IsPdfResult(rresult) /\ IsHtmlResult(rresult))
           /\ IsHtmlResult(rresult) <=> Validated = {}

\* C5's case: two different candidates validated and the one returned is not
\* the first
C5_Witness ==
    /\ rpc = "returned" /\ Cardinality(Validated) = 2
    /\ IsPdfResult(rresult)
    /\ rresult.pdf_url # Some(pdf_links[1])

\* the URL holds the marker, in any letter case
HasMarker(u) == Contains(Lower(u), <<Marker>>)

\* C6: an anchor or tag candidate whose URL holds the marker 'utkarsh' is never
\* validated or collected, and never returned as the PDF URL, whatever the page
\* and the validation outcomes.
C6_MarkedNeverCollected ==
    /\ \A i \in 1..Len(reqlog) :
          reqlog[i].kind \in {"anchor", "tag"} => ~HasMarker(reqlog[i].url)
    /\ \A i \in 1..Len(pdf_links) : ~HasMarker(pdf_links[i])
    /\ rresult.pdf_url # None => ~HasMarker(rresult.pdf_url[1])

\* C6's case: the page held a marked anchor and a marked tag, none was
\* requested, and the call returned
C6_Witness ==
    /\ rpc = "returned" /\ rresult # NoResult
    /\ \E k \in 1..Len(page.anchors) : HasMarker(page.anchors[k])
    /\ \E k \in 1..Len(page.tags) : HasMarker(TagSource(page.tags[k]))

====
